---- MODULE Spec2Model ----
(***************************************************************************)
(* Model of csv_to_json_converter.py: the cell normaliser safe_int, the    *)
(* move builder build_move, the per-row card literal of                    *)
(* convert_csv_to_json and the conversion pass over a table.               *)
(*                                                                         *)
(* A Python string is a sequence of one-character strings.  A raw cell is  *)
(* a tagged record [kind, s, n]:                                           *)
(*   none  - Python None, what row.get yields for an absent column         *)
(*   nan   - the float NaN pandas puts in an empty cell                    *)
(*   str   - a Python str, its characters in s                             *)
(*   int   - an integer n                                                  *)
(*   float - a finite float, n its value in tenths (609 is 60.9)           *)
(*   inf   - a float infinity, n its sign (1 or -1)                        *)
(*   bool  - True (n = 1) or False (n = 0)                                 *)
(***************************************************************************)
EXTENDS Integers, Sequences, FiniteSets, TLC

VARIABLES df, idx, cards, pc, exc, output, input, result

vars == <<df, idx, cards, pc, exc, output, input, result>>

----------------------------------------------------------------------------
(* Raw values *)

None == [kind |-> "none", s |-> <<>>, n |-> 0]

NaN == [kind |-> "nan", s |-> <<>>, n |-> 0]

StrV(chars) == [kind |-> "str", s |-> chars, n |-> 0]

IntV(k) == [kind |-> "int", s |-> <<>>, n |-> k]

FloatV(tenths) == [kind |-> "float", s |-> <<>>, n |-> tenths]

InfV(sign) == [kind |-> "inf", s |-> <<>>, n |-> sign]

BoolV(b) == [kind |-> "bool", s |-> <<>>, n |-> IF b THEN 1 ELSE 0]

(* isinstance(v, str) *)
isinstance_str(v) == v.kind = "str"

(* pd.isna(v): None and NaN are missing, every other scalar is not *)
isna(v) == v.kind \in {"none", "nan"}

(* The outcome of a call: a returned value, or a raised exception *)
Return(v) == [exc |-> "", val |-> v]

Raise(e) == [exc |-> e, val |-> None]

----------------------------------------------------------------------------
(* int(value) *)

Digits == {"0", "1", "2", "3", "4", "5", "6", "7", "8", "9"}

DigitVal(c) ==
  CASE c = "0" -> 0 [] c = "1" -> 1 [] c = "2" -> 2 [] c = "3" -> 3
    [] c = "4" -> 4 [] c = "5" -> 5 [] c = "6" -> 6 [] c = "7" -> 7
    [] c = "8" -> 8 [] c = "9" -> 9

RECURSIVE LStrip(_)
LStrip(s) == IF s # <<>> /\ Head(s) = " " THEN LStrip(Tail(s)) ELSE s

RECURSIVE RStrip(_)
RStrip(s) ==
  IF s # <<>> /\ s[Len(s)] = " " THEN RStrip(SubSeq(s, 1, Len(s) - 1)) ELSE s

Strip(s) == RStrip(LStrip(s))

(* The digits of an integer literal: digits, with single underscores allowed
   between two digits *)
IsDigitRun(d) ==
  /\ d # <<>>
  /\ \A k \in 1..Len(d) :
       \/ d[k] \in Digits
       \/ /\ d[k] = "_"
          /\ k > 1 /\ k < Len(d)
          /\ d[k - 1] \in Digits /\ d[k + 1] \in Digits

RECURSIVE DigitRunVal(_)
DigitRunVal(d) ==
  IF d = <<>> THEN 0
  ELSE LET last == d[Len(d)]
           rest == SubSeq(d, 1, Len(d) - 1)
       IN IF last = "_" THEN DigitRunVal(rest)
          ELSE 10 * DigitRunVal(rest) + DigitVal(last)

(* int(str): surrounding blanks stripped, an optional sign, base-10 digits;
   anything else (a decimal point, letters, the empty string) is a
   ValueError *)
int_of_str(s) ==
  LET t == Strip(s)
      signed == t # <<>> /\ Head(t) \in {"+", "-"}
      d == IF signed THEN Tail(t) ELSE t
  IN IF IsDigitRun(d)
       THEN Return(IntV(IF signed /\ Head(t) = "-"
                         THEN 0 - DigitRunVal(d) ELSE DigitRunVal(d)))
       ELSE Raise("ValueError")

(* The float rounded down instead *)
Trunc_floor(tenths) == tenths \div 10

(* int(float): the fractional part is dropped, towards zero *)

Trunc(tenths) ==
  IF tenths >= 0 THEN tenths \div 10 ELSE 0 - ((0 - tenths) \div 10)

py_int(value) ==
  CASE value.kind = "str" -> int_of_str(value.s)
    [] value.kind = "int" -> Return(IntV(value.n))
    [] value.kind = "bool" -> Return(IntV(value.n))
    [] value.kind = "float" -> Return(IntV(Trunc(value.n)))
    [] value.kind = "nan" -> Raise("ValueError")
    [] value.kind = "inf" -> Raise("OverflowError")
    [] value.kind = "none" -> Raise("TypeError")

(* safe_int: ValueError and TypeError are caught and give 0; any other
   exception of int() propagates *)
safe_int(value) ==
  LET r == py_int(value)
  IN IF r.exc \in {"ValueError", "TypeError"} THEN Return(IntV(0)) ELSE r

----------------------------------------------------------------------------
(* Inputs of the safe_int specification *)

MaxLen == 3

Alphabet == {"4", "2", "-", ".", " ", "N"}

RECURSIVE StringsUpTo(_, _)
StringsUpTo(A, k) ==
  IF k = 0 THEN {<<>>}
  ELSE LET shorter == StringsUpTo(A, k - 1)
       IN shorter \cup {Append(s, c) : s \in shorter, c \in A}

ExampleStrings ==
  { <<"4", "2">>, <<"N", "/", "A">>, <<"6", "0", ".", "9">>,
    <<"-", "6", "0", ".", "9">>, <<"+", "4", "_", "2">>, <<"6", "0">> }

IntInputs ==
  {None, NaN, InfV(1), InfV(-1), BoolV(TRUE), BoolV(FALSE)}
    \cup {IntV(k) : k \in {-42, -1, 0, 7, 42}}
    \cup {FloatV(t) : t \in {-609, -600, -15, -5, 0, 5, 15, 600, 609}}
    \cup {StrV(s) : s \in StringsUpTo(Alphabet, MaxLen) \cup ExampleStrings}

NoCall == [fn |-> "", arg |-> None]

NoDf == [columns |-> {}, rows |-> <<>>]

Unwritten == [written |-> FALSE, cards |-> <<>>]

(* The conversion pass is not running: only a function is being applied *)
Idle ==
  /\ df = NoDf /\ idx = 0 /\ cards = <<>> /\ exc = ""
  /\ output = Unwritten

InitInt ==
  /\ Idle /\ pc = "call" /\ result = Return(None)
  /\ \E v \in IntInputs : input = [fn |-> "safe_int", arg |-> v]

CallSafeInt ==
  /\ pc = "call" /\ input.fn = "safe_int"
  /\ result' = safe_int(input.arg)
  /\ pc' = "returned"
  /\ UNCHANGED <<df, idx, cards, exc, output, input>>

NextInt == CallSafeInt

SpecInt == InitInt /\ [][NextInt]_vars

----------------------------------------------------------------------------
(* Claims about safe_int, under SpecInt *)

Called(fn) == pc = "returned" /\ input.fn = fn

(* C1, as claimed: for every raw value (absent, NaN, any string, any number,
   the infinities included, a boolean) safe_int returns an integer and raises
   nothing, and it returns 0 whenever int() fails *)
C1_NeverRaises ==
  Called("safe_int") =>
    /\ result.exc = ""
    /\ result.val.kind = "int"
    /\ (py_int(input.arg).exc # "" => result.val = IntV(0))

(* The value a base-10 literal of one or two digits denotes *)
IsPlainDigits(s) == Len(s) \in 1..2 /\ \A k \in 1..Len(s) : s[k] \in Digits

PlainDigitsVal(s) ==
  IF Len(s) = 1 THEN DigitVal(s[1]) ELSE 10 * DigitVal(s[1]) + DigitVal(s[2])

(* q is the float (in tenths) with its fractional part dropped towards zero *)
IsTruncationOf(q, tenths) ==
  IF tenths >= 0
    THEN 10 * q <= tenths /\ tenths < 10 * q + 10
    ELSE 10 * q >= tenths /\ tenths > 10 * q - 10

(* A decimal literal with a point: optional sign, digits around one point *)
IsFloatLooking(s) ==
  LET t == Strip(s)
      d == IF t # <<>> /\ Head(t) \in {"+", "-"} THEN Tail(t) ELSE t
  IN /\ Cardinality({k \in 1..Len(d) : d[k] = "."}) = 1
     /\ \E k \in 1..Len(d) : d[k] \in Digits
     /\ \A k \in 1..Len(d) : d[k] \in Digits \cup {"."}

ReturnsInt(k) == result = Return(IntV(k))

(* The part of the edge-case policy that the claim and the code agree on:
   digit strings give their value, other strings without a point give 0,
   finite floats are truncated towards zero, None and NaN give 0 *)
PolicyCommon ==
  LET v == input.arg
  IN /\ (v = StrV(<<"4", "2">>) => ReturnsInt(42))
     /\ (v = StrV(<<"N", "/", "A">>) => ReturnsInt(0))
     /\ (v.kind = "str" /\ IsPlainDigits(v.s) => ReturnsInt(PlainDigitsVal(v.s)))
     /\ (v.kind = "str" /\ (\A k \in 1..Len(v.s) : v.s[k] \in {"N", "/", "A"})
           => ReturnsInt(0))
     /\ (v.kind = "float" =>
           /\ result.exc = "" /\ result.val.kind = "int"
           /\ IsTruncationOf(result.val.n, v.n))
     /\ (v = FloatV(609) => ReturnsInt(60))
     /\ (v = FloatV(-609) => ReturnsInt(-60))
     /\ (v.kind \in {"none", "nan"} => ReturnsInt(0))

(* C8, as claimed: "42" gives 42, "N/A" gives 0, a float-looking value, a
   number or a string such as "60.9", is truncated towards zero, and a
   boolean gives 0 *)
C8_PolicyAsClaimed ==
  Called("safe_int") =>
    /\ PolicyCommon
    /\ (input.arg = StrV(<<"6", "0", ".", "9">>) => ReturnsInt(60))
    /\ (input.arg = StrV(<<"-", "6", "0", ".", "9">>) => ReturnsInt(-60))
    /\ (input.arg.kind = "bool" => ReturnsInt(0))

(* C8, amended: as claimed for digit strings, non-numeric strings, finite
   floats, None and NaN; but a float-looking string gives 0, it is not
   truncated, and a boolean gives its numeric value, 1 for True and 0 for
   False *)
C8_Policy ==
  Called("safe_int") =>
    /\ PolicyCommon
    /\ (input.arg.kind = "str" /\ IsFloatLooking(input.arg.s) => ReturnsInt(0))
    /\ (input.arg = BoolV(TRUE) => ReturnsInt(1))
    /\ (input.arg = BoolV(FALSE) => ReturnsInt(0))

(* C8 witness: the negative float -60.9 has been converted, to -60 *)
C8_Witness ==
  Called("safe_int") /\ input.arg = FloatV(-609) /\ ReturnsInt(-60)

----------------------------------------------------------------------------
(* Rows: a row is a function from the columns of the table to raw cells *)

Columns ==
  { "ID", "Name", "CardType", "EvolutionStage", "Pack", "HP", "Type",
    "Weakness", "RetreatCost", "AbilityName", "Ability", "MaxDamage",
    "MaxEnergyCost", "Tags", "ImageKey", "Move1Name", "Move1Damage",
    "Move1Effect", "Move2Name", "Move2Damage", "Move2Effect" }

(* row.get(col): None when the row has no such column *)
row_get(row, col) == IF col \in DOMAIN row THEN row[col] ELSE None

(* row[col]: KeyError when the row has no such column *)
row_item(row, col) ==
  IF col \in DOMAIN row THEN Return(row[col]) ELSE Raise("KeyError")

----------------------------------------------------------------------------
(* build_move *)

EmptyStr == StrV(<<>>)

build_move(row, prefix) ==
  LET name == row_get(row, prefix \o "Name")
      damage == row_get(row, prefix \o "Damage")
      effect == row_get(row, prefix \o "Effect")
      dmg == safe_int(damage)
  IN IF isna(name) /\ ~isinstance_str(effect)
       THEN Return(None)
       ELSE IF dmg.exc # "" THEN Raise(dmg.exc)
       ELSE Return([name |-> IF isinstance_str(name) THEN name ELSE EmptyStr,
                    damage |-> dmg.val,
                    effect |-> IF isinstance_str(effect) THEN effect
                               ELSE EmptyStr])

----------------------------------------------------------------------------
(* Inputs of the build_move specification: the three cells of the slot range
   over raw values and over "column missing", the other slot is filled *)

Missing == [kind |-> "missing", s |-> <<>>, n |-> 0]

(* The row that has the columns an assignment does not mark missing *)
RowOf(cells) ==
  [c \in {c \in DOMAIN cells : cells[c] # Missing} |-> cells[c]]

MoveNameCells ==
  {Missing, NaN, EmptyStr, StrV(<<"a">>), IntV(7), BoolV(FALSE)}

MoveDamageCells ==
  { Missing, NaN, StrV(<<"2", "0">>), StrV(<<"x">>), StrV(<<"2", ".", "5">>),
    IntV(20), FloatV(-15), InfV(1), BoolV(TRUE) }

MoveEffectCells ==
  {Missing, NaN, EmptyStr, StrV(<<"P", "a", "r">>), IntV(7)}

Prefixes == {"Move1", "Move2"}

OtherPrefix(prefix) == IF prefix = "Move1" THEN "Move2" ELSE "Move1"

MoveRow(prefix, name, damage, effect) ==
  RowOf([c \in {p \o f : p \in Prefixes, f \in {"Name", "Damage", "Effect"}} |->
           CASE c = prefix \o "Name" -> name
             [] c = prefix \o "Damage" -> damage
             [] c = prefix \o "Effect" -> effect
             [] c = OtherPrefix(prefix) \o "Name" -> StrV(<<"z">>)
             [] c = OtherPrefix(prefix) \o "Damage" -> IntV(9)
             [] c = OtherPrefix(prefix) \o "Effect" -> StrV(<<"y">>)])

InitMove ==
  /\ Idle /\ pc = "call" /\ result = Return(None)
  /\ \E prefix \in Prefixes, name \in MoveNameCells,
        damage \in MoveDamageCells, effect \in MoveEffectCells :
       input = [fn |-> "build_move",
                arg |-> [row |-> MoveRow(prefix, name, damage, effect),
                         prefix |-> prefix]]

CallBuildMove ==
  /\ pc = "call" /\ input.fn = "build_move"
  /\ result' = build_move(input.arg.row, input.arg.prefix)
  /\ pc' = "returned"
  /\ UNCHANGED <<df, idx, cards, exc, output, input>>

NextMove == CallBuildMove

SpecMove == InitMove /\ [][NextMove]_vars

(* C2, as claimed: build_move returns null iff the slot's name is a no-value
   marker (or absent) and its effect is not a string; in every other case it
   returns {name if string else "", normalizeInteger(damage), effect if
   string else ""} *)
C2_BuildMove ==
  Called("build_move") =>
    LET row == input.arg.row
        name == row_get(row, input.arg.prefix \o "Name")
        damage == row_get(row, input.arg.prefix \o "Damage")
        effect == row_get(row, input.arg.prefix \o "Effect")
    IN /\ result.exc = ""
       /\ (result.val = None <=> (name.kind \in {"none", "nan"} /\ effect.kind # "str"))
       /\ (result.val # None =>
             /\ result.val.name = (IF name.kind = "str" THEN name ELSE EmptyStr)
             /\ safe_int(damage).exc = ""
             /\ result.val.damage = safe_int(damage).val
             /\ result.val.effect = (IF effect.kind = "str" THEN effect ELSE EmptyStr))

(* What is left of C2 when the damage cell is not an infinity *)
C2_BuildMoveFiniteDamage ==
  row_get(input.arg.row, input.arg.prefix \o "Damage").kind # "inf" => C2_BuildMove

----------------------------------------------------------------------------
(* str(value), for the id field *)

DigitChar(k) ==
  CASE k = 0 -> "0" [] k = 1 -> "1" [] k = 2 -> "2" [] k = 3 -> "3"
    [] k = 4 -> "4" [] k = 5 -> "5" [] k = 6 -> "6" [] k = 7 -> "7"
    [] k = 8 -> "8" [] k = 9 -> "9"

RECURSIVE NatDigits(_)
NatDigits(k) ==
  IF k < 10 THEN <<DigitChar(k)>>
  ELSE Append(NatDigits(k \div 10), DigitChar(k % 10))

IntDigits(k) == IF k < 0 THEN <<"-">> \o NatDigits(0 - k) ELSE NatDigits(k)

py_str(value) ==
  CASE value.kind = "str" -> value.s
    [] value.kind = "int" -> IntDigits(value.n)
    [] value.kind = "float" ->
         LET a == IF value.n < 0 THEN 0 - value.n ELSE value.n
         IN (IF value.n < 0 THEN <<"-">> ELSE <<>>)
              \o NatDigits(a \div 10) \o <<".">> \o NatDigits(a % 10)
    [] value.kind = "nan" -> <<"n", "a", "n">>
    [] value.kind = "inf" ->
         IF value.n < 0 THEN <<"-", "i", "n", "f">> ELSE <<"i", "n", "f">>
    [] value.kind = "bool" ->
         IF value.n = 1 THEN <<"T", "r", "u", "e">>
         ELSE <<"F", "a", "l", "s", "e">>
    [] value.kind = "none" -> <<"N", "o", "n", "e">>

----------------------------------------------------------------------------
(* The card literal of convert_csv_to_json *)

(* s.split(','): every segment is kept, the empty ones too *)
RECURSIVE split(_)
split(s) ==
  IF \A k \in 1..Len(s) : s[k] # ","
    THEN <<StrV(s)>>
    ELSE LET k == CHOOSE j \in 1..Len(s) :
                    s[j] = "," /\ \A h \in 1..(j - 1) : s[h] # ","
         IN <<StrV(SubSeq(s, 1, k - 1))>> \o split(SubSeq(s, k + 1, Len(s)))

(* v if isinstance(v, str) else "" *)
str_or_empty(v) == IF isinstance_str(v) THEN v ELSE EmptyStr

(* row[col] if isinstance(row[col], str) else "" *)
item_str(row, col) ==
  LET r == row_item(row, col)
  IN IF r.exc # "" THEN r ELSE Return(str_or_empty(r.val))

(* row[col] if isinstance(row.get(col), str) else "" *)
get_str(row, col) == Return(str_or_empty(row_get(row, col)))

(* safe_int(row[col]) that converts numbers only, and gives 0 for a string *)
item_int_numeric(row, col) ==
  LET r == row_item(row, col)
  IN IF r.exc # "" THEN r
     ELSE IF r.val.kind = "str" THEN Return(IntV(0)) ELSE safe_int(r.val)

(* safe_int(row[col]) *)
item_int(row, col) ==
  LET r == row_item(row, col)
  IN IF r.exc # "" THEN r ELSE safe_int(r.val)

(* safe_int(row[col]) where the code has safe_int(row.get(col)) *)
get_int_indexed(row, col) == item_int(row, col)

(* safe_int(row.get(col)) *)
get_int(row, col) == safe_int(row_get(row, col))

(* str(row["ID"]) *)
id_of(row) ==
  LET r == row_item(row, "ID")
  IN IF r.exc # "" THEN r ELSE Return(StrV(py_str(r.val)))

(* row["Tags"].split(',') if isinstance(row["Tags"], str) else [] *)
tags_of(row) ==
  LET r == row_item(row, "Tags")
  IN IF r.exc # "" THEN r
     ELSE [exc |-> "",
           val |-> IF isinstance_str(r.val) THEN split(r.val.s) ELSE <<>>]

(* abilityEffect read from the AbilityName column *)
abilityEffect_of_name(row) == get_str(row, "AbilityName")

(* "abilityEffect": row["Ability"] if isinstance(row.get("Ability"), str) else "" *)
abilityEffect_of(row) == get_str(row, "Ability")

(* The values of the dict literal, in the order Python evaluates them *)
card_values(row) ==
  [id |-> id_of(row),
   name |-> row_item(row, "Name"),
   cardType |-> item_str(row, "CardType"),
   evolutionStage |-> get_str(row, "EvolutionStage"),
   pack |-> get_str(row, "Pack"),
   hp |-> item_int(row, "HP"),
   type |-> item_str(row, "Type"),
   weakness |-> item_str(row, "Weakness"),
   retreatCost |-> item_int(row, "RetreatCost"),
   abilityName |-> get_str(row, "AbilityName"),
   abilityEffect |-> abilityEffect_of(row),
   moves |-> [exc |-> "", val |-> <<>>],
   maxDamage |-> get_int(row, "MaxDamage"),
   maxEnergyCost |-> get_int(row, "MaxEnergyCost"),
   tags |-> tags_of(row),
   imageKey |-> item_str(row, "ImageKey")]

FieldOrder ==
  << "id", "name", "cardType", "evolutionStage", "pack", "hp", "type",
     "weakness", "retreatCost", "abilityName", "abilityEffect", "moves",
     "maxDamage", "maxEnergyCost", "tags", "imageKey" >>

(* The dict literal: the first value that raises ends the evaluation *)
card_literal(row) ==
  LET v == card_values(row)
      raising == {k \in 1..Len(FieldOrder) : v[FieldOrder[k]].exc # ""}
  IN IF raising # {}
       THEN Raise(v[FieldOrder[CHOOSE k \in raising :
                                 \A j \in raising : k <= j]].exc)
       ELSE Return([f \in DOMAIN v |-> v[f].val])

(* The two appends in the other order *)
append_moves_swapped(card, move1, move2) ==
  [card EXCEPT !.moves =
     (IF move2 # None THEN <<move2>> ELSE <<>>)
       \o (IF move1 # None THEN <<move1>> ELSE <<>>)]

(* if move1: append; if move2: append.  A move dict has three keys, so it is
   true; None is false *)
append_moves(card, move1, move2) ==
  [card EXCEPT !.moves =
     (IF move1 # None THEN <<move1>> ELSE <<>>)
       \o (IF move2 # None THEN <<move2>> ELSE <<>>)]

(* One iteration of the loop: the card of a row, or the exception raised *)
build_card(row) ==
  LET card == card_literal(row)
      move1 == build_move(row, "Move1")
      move2 == build_move(row, "Move2")
  IN IF card.exc # "" THEN card
     ELSE IF move1.exc # "" THEN move1
     ELSE IF move2.exc # "" THEN move2
     ELSE Return(append_moves(card.val, move1.val, move2.val))

----------------------------------------------------------------------------
(* Inputs of the build_card specification: a few base rows, and every row
   that differs from one of them in at most MaxDev cells (a cell changed, or
   its column removed) *)

MaxDev == 1

S(str) == StrV(str)

(* A complete row: every column filled, both moves present *)
FullRow ==
  [c \in Columns |->
     CASE c = "ID" -> IntV(25)
       [] c = "Name" -> S(<<"R", "a", "i">>)
       [] c = "CardType" -> S(<<"P">>)
       [] c = "EvolutionStage" -> S(<<"1">>)
       [] c = "Pack" -> S(<<"A", "1">>)
       [] c = "HP" -> IntV(90)
       [] c = "Type" -> S(<<"E">>)
       [] c = "Weakness" -> S(<<"F">>)
       [] c = "RetreatCost" -> FloatV(15)
       [] c = "AbilityName" -> S(<<"n">>)
       [] c = "Ability" -> S(<<"e">>)
       [] c = "MaxDamage" -> S(<<"4", "2">>)
       [] c = "MaxEnergyCost" -> IntV(3)
       [] c = "Tags" -> S(<<"a", ",", "b", ",", ",", "c">>)
       [] c = "ImageKey" -> S(<<"k">>)
       [] c = "Move1Name" -> S(<<"m", "1">>)
       [] c = "Move1Damage" -> IntV(20)
       [] c = "Move1Effect" -> NaN
       [] c = "Move2Name" -> S(<<"m", "2">>)
       [] c = "Move2Damage" -> S(<<"4", "0">>)
       [] c = "Move2Effect" -> S(<<"P", "a", "r">>)]

(* A row with an id and a name and nothing else: every other cell is empty *)
BlankRow ==
  [c \in Columns |->
     CASE c = "ID" -> S(<<"0", "0", "2">>)
       [] c = "Name" -> S(<<"E">>)
       [] OTHER -> NaN]

Pikachu == <<"P", "i", "k", "a", "c", "h", "u">>

Pokemon == <<"P", "o", "k", "é", "m", "o", "n">>

ThunderShock ==
  <<"T", "h", "u", "n", "d", "e", "r", " ", "S", "h", "o", "c", "k">>

ElectricBasic ==
  << "E", "l", "e", "c", "t", "r", "i", "c", ",", "B", "a", "s", "i", "c" >>

(* The row of the end-to-end example, every other column absent *)
PikachuRow ==
  [ID |-> S(<<"0", "0", "1">>), Name |-> S(Pikachu), CardType |-> S(Pokemon),
   HP |-> S(<<"6", "0">>), Move1Name |-> S(ThunderShock),
   Move1Damage |-> S(<<"2", "0">>), Move1Effect |-> EmptyStr,
   Tags |-> S(ElectricBasic)]

(* The same row with the columns the literal indexes present and empty *)
PikachuRowIndexed ==
  [c \in DOMAIN PikachuRow \cup {"Type", "Weakness", "RetreatCost", "ImageKey"} |->
     IF c \in DOMAIN PikachuRow THEN PikachuRow[c] ELSE NaN]

BaseRows == {FullRow, BlankRow, PikachuRow, PikachuRowIndexed}

CardCells ==
  { Missing, NaN, EmptyStr, S(<<"a", ",", ",", "b">>), IntV(7), FloatV(-15),
    InfV(1), BoolV(TRUE) }

(* The row with one cell set, or with the column removed *)
WithCell(row, col, cell) ==
  RowOf([c \in DOMAIN row \cup {col} |-> IF c = col THEN cell ELSE row[c]])

RECURSIVE RowsWithin(_, _)
RowsWithin(rows, k) ==
  IF k = 0 THEN rows
  ELSE LET nearer == RowsWithin(rows, k - 1)
       IN nearer \cup
            {WithCell(r, c, v) : r \in nearer, c \in Columns, v \in CardCells}

CardRows == RowsWithin(BaseRows, MaxDev)

InitCard ==
  /\ Idle /\ pc = "call" /\ result = Return(None)
  /\ \E row \in CardRows : input = [fn |-> "build_card", arg |-> row]

CallBuildCard ==
  /\ pc = "call" /\ input.fn = "build_card"
  /\ result' = build_card(input.arg)
  /\ pc' = "returned"
  /\ UNCHANGED <<df, idx, cards, exc, output, input>>

NextCard == CallBuildCard

SpecCard == InitCard /\ [][NextCard]_vars

----------------------------------------------------------------------------
(* Claims about the card of one row, under SpecCard *)

Built == Called("build_card") /\ result.exc = ""

StringFields ==
  { "id", "name", "cardType", "evolutionStage", "pack", "type", "weakness",
    "abilityName", "abilityEffect", "imageKey" }

IntegerFields == {"hp", "retreatCost", "maxDamage", "maxEnergyCost"}

IsMoveRecord(m) ==
  /\ DOMAIN m = {"name", "damage", "effect"}
  /\ m.name.kind = "str" /\ m.damage.kind = "int" /\ m.effect.kind = "str"

(* C3, as claimed: every emitted card has all 16 fields, the string fields
   (id and name included) hold strings, the integer fields integers, moves is
   a sequence of move records and tags a sequence of strings *)
C3_TypeCorrect ==
  Built =>
    LET card == result.val
    IN /\ DOMAIN card = StringFields \cup IntegerFields \cup {"moves", "tags"}
       /\ \A f \in StringFields : card[f].kind = "str"
       /\ \A f \in IntegerFields : card[f].kind = "int"
       /\ \A k \in 1..Len(card.moves) : IsMoveRecord(card.moves[k])
       /\ \A k \in 1..Len(card.tags) : card.tags[k].kind = "str"

(* The column each scalar field other than id and name is read from *)
ColumnOf(f) ==
  CASE f = "cardType" -> "CardType"
    [] f = "evolutionStage" -> "EvolutionStage"
    [] f = "pack" -> "Pack"
    [] f = "hp" -> "HP"
    [] f = "type" -> "Type"
    [] f = "weakness" -> "Weakness"
    [] f = "retreatCost" -> "RetreatCost"
    [] f = "abilityName" -> "AbilityName"
    [] f = "abilityEffect" -> "Ability"
    [] f = "maxDamage" -> "MaxDamage"
    [] f = "maxEnergyCost" -> "MaxEnergyCost"
    [] f = "imageKey" -> "ImageKey"

Without(row, col) == [c \in DOMAIN row \ {col} |-> row[c]]

Fallback(f) == IF f \in IntegerFields THEN IntV(0) ELSE EmptyStr

(* For field f: the row holds a no-value marker in f's column, and the row
   without that column gives the same outcome, a card whose f is the fallback
   or the same exception *)
AbsentLikeNoValue(f) ==
  LET row == input.arg
      col == ColumnOf(f)
  IN (col \in DOMAIN row /\ row[col] = NaN) =>
       /\ build_card(Without(row, col)) = result
       /\ (result.exc = "" => result.val[f] = Fallback(f))

(* C5, as claimed: for each of the twelve scalar fields other than id and
   name, an absent column gives the same field and the same outcome as a
   no-value marker in it *)
C5_AbsentAsClaimed ==
  Called("build_card") =>
    \A f \in (StringFields \cup IntegerFields) \ {"id", "name"} :
      AbsentLikeNoValue(f)

OptionalFields ==
  { "evolutionStage", "pack", "abilityName", "abilityEffect", "maxDamage",
    "maxEnergyCost" }

(* C5, amended: the equivalence holds for the six fields whose column is read
   with row.get (evolutionStage, pack, abilityName, abilityEffect, maxDamage,
   maxEnergyCost) *)
C5_AbsentOptional ==
  Called("build_card") => \A f \in OptionalFields : AbsentLikeNoValue(f)

(* C5 witness: a card was built from a row whose MaxDamage and Pack cells are
   no-value markers *)
C5_Witness ==
  /\ Built
  /\ "MaxDamage" \in DOMAIN input.arg /\ input.arg["MaxDamage"] = NaN
  /\ "Pack" \in DOMAIN input.arg /\ input.arg["Pack"] = NaN
  /\ result.val.maxDamage = IntV(0) /\ result.val.pack = EmptyStr

(* The slot's cells make a move: not (name missing and effect not a string) *)
SlotValid(row, prefix) ==
  ~(/\ row_get(row, prefix \o "Name").kind \in {"none", "nan"}
    /\ row_get(row, prefix \o "Effect").kind # "str")

(* C6: moves is the sequence of the non-null results of build_move for Move1
   and Move2, in that order: one entry per valid slot, Move1's first, no
   placeholder for a dropped slot *)
C6_Moves ==
  Built =>
    LET row == input.arg
        moves == result.val.moves
        m1 == build_move(row, "Move1").val
        m2 == build_move(row, "Move2").val
        v1 == SlotValid(row, "Move1")
        v2 == SlotValid(row, "Move2")
    IN /\ Len(moves) = (IF v1 THEN 1 ELSE 0) + (IF v2 THEN 1 ELSE 0)
       /\ (v1 => m1 # None /\ moves[1] = m1)
       /\ (v2 => m2 # None /\ moves[Len(moves)] = m2)
       /\ (v2 /\ ~v1 => moves[1] = m2)
       /\ \A k \in 1..Len(moves) : moves[k] # None

(* C6 witness: only the second slot is valid, and its move is at index 1 of a
   one-element sequence *)
C6_Witness ==
  /\ Built
  /\ ~SlotValid(input.arg, "Move1") /\ SlotValid(input.arg, "Move2")
  /\ Len(result.val.moves) = 1
  /\ result.val.moves[1].name = row_get(input.arg, "Move2Name")

(* What the end-to-end example says of the card *)
IsPikachuCard(r) ==
  /\ r.exc = ""
  /\ r.val.hp = IntV(60)
  /\ r.val.retreatCost = IntV(0)
  /\ r.val.tags = << S(<<"E", "l", "e", "c", "t", "r", "i", "c">>),
                     S(<<"B", "a", "s", "i", "c">>) >>
  /\ r.val.moves = << [name |-> S(ThunderShock), damage |-> IntV(20),
                       effect |-> EmptyStr] >>
  /\ \A f \in { "evolutionStage", "pack", "type", "weakness", "abilityName",
                "abilityEffect", "imageKey" } : r.val[f] = EmptyStr

(* C7, as claimed: the example row, with every other column absent (Type,
   Weakness, RetreatCost, ImageKey and the Move2 columns too), gives the card
   with hp 60, retreatCost 0, the two tags, the one move and every other
   string field empty *)
C7_ExampleAsClaimed ==
  Called("build_card") /\ input.arg = PikachuRow => IsPikachuCard(result)

(* C7, amended: the example row gives that card when the columns the literal
   indexes (Type, Weakness, RetreatCost, ImageKey) are present and hold a
   no-value marker; the other columns may be absent *)
C7_Example ==
  Called("build_card") /\ input.arg = PikachuRowIndexed => IsPikachuCard(result)

(* C7 witness: the card of the example row with the indexed columns present
   has been built *)
C7_Witness ==
  Built /\ input.arg = PikachuRowIndexed /\ result.val.hp = IntV(60)

PlainStringFields == StringFields \ {"id", "name"}

(* C9: each string field other than id and name is its column's cell when the
   cell is a string, and "" otherwise; abilityEffect follows Ability, whatever
   AbilityName holds *)
C9_StringFields ==
  Built =>
    \A f \in PlainStringFields :
      ColumnOf(f) \in DOMAIN input.arg =>
        LET cell == input.arg[ColumnOf(f)]
        IN result.val[f] = (IF cell.kind = "str" THEN cell ELSE EmptyStr)

(* C9 witness: a card whose Ability and AbilityName cells are different
   strings, and one of whose string columns holds a number *)
C9_Witness ==
  /\ Built
  /\ {"Ability", "AbilityName"} \subseteq DOMAIN input.arg
  /\ input.arg["Ability"].kind = "str" /\ input.arg["AbilityName"].kind = "str"
  /\ input.arg["Ability"] # input.arg["AbilityName"]
  /\ result.val.abilityEffect = input.arg["Ability"]
  /\ \E f \in PlainStringFields :
       /\ ColumnOf(f) \in DOMAIN input.arg
       /\ input.arg[ColumnOf(f)].kind \in {"int", "float"}
       /\ result.val[f] = EmptyStr

----------------------------------------------------------------------------
(* convert_csv_to_json: the pass over the rows of the table, then the dump *)

MaxRows == 3

(* The example row in a table that has every column *)
PikachuFullRow ==
  [c \in Columns |-> IF c \in DOMAIN PikachuRow THEN PikachuRow[c] ELSE NaN]

(* The rows a table is made of, before its header is applied *)
RowPool ==
  { FullRow, BlankRow, PikachuFullRow,
    [FullRow EXCEPT !["Name"] = NaN, !["Move1Name"] = NaN],
    [FullRow EXCEPT !["HP"] = InfV(1)],
    [BlankRow EXCEPT !["Move2Effect"] = S(<<"P", "a", "r">>),
                     !["Move2Damage"] = InfV(-1)] }

(* The columns of a table: all of them, or one missing, or those of the
   end-to-end example *)
Headers ==
  { Columns, Columns \ {"Pack"}, Columns \ {"Tags"}, Columns \ {"ID"},
    Columns \ {"Move2Damage"}, DOMAIN PikachuRow }

RECURSIVE SeqsUpTo(_, _)
SeqsUpTo(A, k) ==
  IF k = 0 THEN {<<>>}
  ELSE LET shorter == SeqsUpTo(A, k - 1)
       IN shorter \cup {Append(s, a) : s \in shorter, a \in A}

(* pd.read_csv: every row of a table has exactly the table's columns *)
Tables ==
  { [columns |-> h, rows |-> [k \in 1..Len(rs) |-> [c \in h |-> rs[k][c]]]] :
      h \in Headers, rs \in SeqsUpTo(RowPool, MaxRows) }

Init ==
  /\ df \in Tables
  /\ idx = 0
  /\ cards = <<>>
  /\ pc = "loop"
  /\ exc = ""
  /\ output = Unwritten
  /\ input = NoCall
  /\ result = Return(None)

(* The body of the loop swapped for one that puts the card first *)
LoopBody_prepend ==
  /\ pc = "loop" /\ idx < Len(df.rows)
  /\ LET r == build_card(df.rows[idx + 1])
     IN IF r.exc = ""
          THEN /\ cards' = <<r.val>> \o cards
               /\ idx' = idx + 1
               /\ UNCHANGED <<pc, exc>>
          ELSE /\ pc' = "raised"
               /\ exc' = r.exc
               /\ UNCHANGED <<cards, idx>>
  /\ UNCHANGED <<df, output, input, result>>

(* for _, row in df.iterrows(): build the card and append it; an exception
   leaves the function *)
LoopBody ==
  /\ pc = "loop" /\ idx < Len(df.rows)
  /\ LET r == build_card(df.rows[idx + 1])
     IN IF r.exc = ""
          THEN /\ cards' = Append(cards, r.val)
               /\ idx' = idx + 1
               /\ UNCHANGED <<pc, exc>>
          ELSE /\ pc' = "raised"
               /\ exc' = r.exc
               /\ UNCHANGED <<cards, idx>>
  /\ UNCHANGED <<df, output, input, result>>

(* After the last row: open the output and json.dump({"cards": cards}) *)
Dump ==
  /\ pc = "loop" /\ idx = Len(df.rows)
  /\ output' = [written |-> TRUE, cards |-> cards]
  /\ pc' = "done"
  /\ UNCHANGED <<df, idx, cards, exc, input, result>>

Next == LoopBody \/ Dump

Spec == Init /\ [][Next]_vars

----------------------------------------------------------------------------
(* Claims about the pass, under Spec *)

(* C4: at every point of the pass the cards are the records of a prefix of
   the rows, card i built from row i alone; after a completed conversion of n
   rows the output holds exactly those n cards, in the order of the rows *)
C4_Order ==
  /\ Len(cards) = idx /\ idx <= Len(df.rows)
  /\ \A i \in 1..Len(cards) : Return(cards[i]) = build_card(df.rows[i])
  /\ (pc = "done" =>
        /\ Len(output.cards) = Len(df.rows)
        /\ \A i \in 1..Len(df.rows) :
             Return(output.cards[i]) = build_card(df.rows[i]))

(* C4 witness: a completed conversion of at least two rows whose cards
   differ *)
C4_Witness ==
  /\ pc = "done" /\ output.written
  /\ Len(output.cards) >= 2
  /\ output.cards[1] # output.cards[2]

RequiredColumns ==
  { "ID", "Name", "CardType", "Type", "Weakness", "ImageKey", "HP",
    "RetreatCost", "Tags" }

(* C10, as claimed: a run that fails writes no output at all; when the
   required columns are all present no cell content makes the run fail; and
   the output is written only after the last row *)
C10_AllOrNothing ==
  /\ (pc = "raised" => ~output.written)
  /\ (RequiredColumns \subseteq df.columns => pc # "raised")
  /\ (output.written => pc = "done" /\ idx = Len(df.rows))

(* What is left of C10 when no cell of the table is an infinity *)
C10_AllOrNothingFinite ==
  (\A k \in 1..Len(df.rows) : \A c \in df.columns : df.rows[k][c].kind # "inf")
    => C10_AllOrNothing

====
